---- MODULE Spec2Model ----
(***************************************************************************)
(* PulseLearn LMS front end: the in-memory data store of DataContext       *)
(* (courses, enrollments, certificates), the operations it exposes, and    *)
(* the React render that refreshes the values its callbacks close over.    *)
(*                                                                         *)
(* A callback created in one render reads `courses` and `enrollments` of   *)
(* that render (rCourses, rEnrollments below), while a functional state    *)
(* update (setX(prev => ...)) reads the store's current value.             *)
(***************************************************************************)
EXTENDS Integers, Sequences, FiniteSets, TLC

VARIABLES
    courses,        \* useState<Course[]>
    enrollments,    \* useState<Enrollment[]>
    certificates,   \* useState<Record<string, string[]>>
    rCourses,       \* `courses` as captured by the callbacks of the last render
    rEnrollments,   \* `enrollments` as captured by the callbacks of the last render:
                    \* the fields they read of it (courseId, learnerId)
    fired,          \* history: per enrollment id, how often the completion branch ran
    toggles,        \* history: toggleLessonCompletion and issueCertificate calls so far
                    \* that changed the store
    quizState,      \* LearnerDashboard useState: lesson id -> selected option
    quizFeedback,   \* LearnerDashboard useState: lesson id -> message
    activeCourseId, \* LearnerDashboard useState<string | null>
    authUser,       \* AuthProvider useState<User | null>: `user`
    users,          \* AuthProvider useState<User[]>
    showComposer,   \* AppContent useState(false)
    sponsorPool,    \* CreditLedger: sponsor pool balance
    learnerBalance, \* CreditLedger: learner id -> balance
    transactionLog, \* CreditLedger: append-only transaction log
    rewardQueue,    \* CreditLedger: completion rewards queued for a retry
    completions,    \* CourseCompleted events emitted so far
    donated         \* history: donations so far

uiVars == <<quizState, quizFeedback, activeCourseId>>

authVars == <<authUser, users, showComposer>>

ledgerVars == <<sponsorPool, learnerBalance, transactionLog, rewardQueue, completions, donated>>

vars == <<courses, enrollments, certificates, rCourses, rEnrollments, fired, toggles,
          quizState, quizFeedback, activeCourseId,
          authUser, users, showComposer,
          sponsorPool, learnerBalance, transactionLog, rewardQueue, completions, donated>>

(***************************************************************************)
(* Bounds                                                                  *)
(***************************************************************************)
MaxIds == 2         \* courses, modules, lessons and enrollments created in one behaviour
FiredCap == 2       \* the history counter saturates here
MaxDonations == 1    \* donations in one behaviour
MaxToggles == 3     \* store-changing toggleLessonCompletion and issueCertificate calls
                    \* in one behaviour

(***************************************************************************)
(* Values                                                                  *)
(***************************************************************************)
Undefined == "undefined"
Times == {"t1", "t2"}                   \* results of new Date().toISOString()
LearnerIds == {"u-learner"}
UnknownCourse == "c-none"
UnknownEnrollment == "enroll-none"
UnknownLesson == "l-none"
UnknownModule == "m-none"

IdNames ==
    [course |-> <<"c-g1", "c-g2", "c-g3", "c-g4", "c-g5", "c-g6">>,
     module |-> <<"m-g1", "m-g2", "m-g3", "m-g4", "m-g5", "m-g6">>,
     lesson |-> <<"l-g1", "l-g2", "l-g3", "l-g4", "l-g5", "l-g6">>,
     enrollment |-> <<"enroll-g1", "enroll-g2", "enroll-g3", "enroll-g4", "enroll-g5", "enroll-g6">>,
     user |-> <<"u-g1", "u-g2", "u-g3", "u-g4", "u-g5", "u-g6">>]

\* An id that no object has yet: ids of a kind are numbered by the objects of the kind.
generateId(kind, n) == IdNames[kind][n]

Min(a, b) == IF a < b THEN a ELSE b

Range(s) == {s[i] : i \in DOMAIN s}

\* Array.prototype.includes
Includes(s, x) == \E i \in DOMAIN s : s[i] = x

\* Array.prototype.filter((id) => id !== x)
RECURSIVE FilterOut(_, _)
FilterOut(s, x) ==
    IF s = <<>> THEN <<>>
    ELSE IF Head(s) = x THEN FilterOut(Tail(s), x)
    ELSE <<Head(s)>> \o FilterOut(Tail(s), x)

\* number of occurrences of x in s
RECURSIVE Count(_, _)
Count(s, x) ==
    IF s = <<>> THEN 0
    ELSE (IF Head(s) = x THEN 1 ELSE 0) + Count(Tail(s), x)

(***************************************************************************)
(* Initial data                                                            *)
(***************************************************************************)
Lesson(id, contentType, quiz) == [id |-> id, contentType |-> contentType, quiz |-> quiz]

seedCourses ==
    << [id |-> "c-design-thinking",
        modules |-> << [id |-> "m-1",
                        lessons |-> << Lesson("l-1", "video", <<>>),
                                       Lesson("l-2", "assignment", <<>>),
                                       Lesson("l-3", "quiz",
                                              <<[id |-> "q-1",
                                                 options |-> <<"Interview recording",
                                                               "Persona empathy map",
                                                               "Survey link",
                                                               "Course outline">>,
                                                 answer |-> "Persona empathy map"]>>) >>] >>] >>

seedEnrollments ==
    << [id |-> "enroll-1",
        courseId |-> "c-design-thinking",
        learnerId |-> "u-learner",
        completedLessons |-> <<"l-1">>,
        completedAt |-> Undefined] >>

seedCertificates == [l \in {"u-learner"} |-> <<>>]

\* AuthContext: initialUsers (the name of a user is not modelled)
initialUsers ==
    << [id |-> "u-admin", email |-> "admin@pulselearn.com", role |-> "admin"],
       [id |-> "u-mentor", email |-> "mentor@pulselearn.com", role |-> "instructor"],
       [id |-> "u-learner", email |-> "jordan@pulselearn.com", role |-> "learner"] >>

Null == "null"

\* `user` while nobody is signed in
NoUser == [id |-> Null, email |-> Null, role |-> Null]

InitAuth ==
    /\ authUser = NoUser
    /\ users = initialUsers
    /\ showComposer = FALSE

\* CreditLedger: the sponsor pool and the reward of the scenario of section 8
InitialPool == 100
RewardPerCompletion == 30
LedgerLearners == {"u-learner", "u-learner-2", "u-learner-3", "u-learner-4"}

InitLedger ==
    /\ sponsorPool = InitialPool
    /\ learnerBalance = [l \in LedgerLearners |-> 0]
    /\ transactionLog = <<>>
    /\ rewardQueue = {}
    /\ completions = {}
    /\ donated = 0

(***************************************************************************)
(* Helpers of the operations                                               *)
(***************************************************************************)
\* course.modules.flatMap((m) => m.lessons)
RECURSIVE FlatLessons(_)
FlatLessons(modules) ==
    IF modules = <<>> THEN <<>>
    ELSE Head(modules).lessons \o FlatLessons(Tail(modules))

\* all modules of all courses
RECURSIVE FlatModules(_)
FlatModules(cs) ==
    IF cs = <<>> THEN <<>>
    ELSE Head(cs).modules \o FlatModules(Tail(cs))

\* courses.find((c) => c.id === courseId) finds something
HasCourse(cs, courseId) == \E i \in DOMAIN cs : cs[i].id = courseId

\* courses.find((c) => c.id === courseId): the first match
FindCourse(cs, courseId) ==
    cs[CHOOSE i \in DOMAIN cs : cs[i].id = courseId /\ \A j \in 1..(i-1) : cs[j].id # courseId]

\* course?.modules.flatMap((m) => m.lessons).length ?? 0
TotalLessons(cs, courseId) ==
    IF HasCourse(cs, courseId)
    THEN Len(FlatLessons(FindCourse(cs, courseId).modules))
    ELSE 0

\* prevCerts[learnerId] ?? []
CertsOf(certs, learnerId) ==
    IF learnerId \in DOMAIN certs THEN certs[learnerId] ELSE <<>>

CourseIds(cs) == {cs[i].id : i \in DOMAIN cs}
ModuleIds(cs) == UNION {{cs[i].modules[j].id : j \in DOMAIN cs[i].modules} : i \in DOMAIN cs}
LessonIds(cs) == UNION {{l.id : l \in Range(FlatLessons(cs[i].modules))} : i \in DOMAIN cs}
EnrollmentIds(es) == {es[i].id : i \in DOMAIN es}

NumModules(cs) == Len(FlatModules(cs))
NumLessons(cs) == Len(FlatLessons(FlatModules(cs)))

\* Objects created since construction
Created(cs, es) ==
    (Len(cs) + NumModules(cs) + NumLessons(cs) + Len(es))
    - (Len(seedCourses) + NumModules(seedCourses) + NumLessons(seedCourses) + Len(seedEnrollments))

\* What the callbacks read of the enrollments they closed over
EnrollKeys(es) ==
    [i \in DOMAIN es |-> [courseId |-> es[i].courseId, learnerId |-> es[i].learnerId]]

(***************************************************************************)
(* Init                                                                    *)
(***************************************************************************)
Init ==
    /\ courses = seedCourses
    /\ enrollments = seedEnrollments
    /\ certificates = seedCertificates
    /\ rCourses = seedCourses
    /\ rEnrollments = EnrollKeys(seedEnrollments)
    /\ fired = [e \in {"enroll-1"} |-> 0]
    /\ toggles = 0
    /\ quizState = <<>>
    /\ quizFeedback = <<>>
    /\ InitAuth
    /\ InitLedger
    /\ activeCourseId = seedEnrollments[1].courseId

(***************************************************************************)
(* createCourse, addModule, addLesson                                      *)
(***************************************************************************)
createCourse(modules) ==
    /\ Created(courses, enrollments) < MaxIds
    /\ courses' = <<[id |-> generateId("course", Len(courses)), modules |-> modules]>> \o courses
    /\ UNCHANGED <<enrollments, certificates, rCourses, rEnrollments, fired, toggles>>
    /\ UNCHANGED uiVars
    /\ UNCHANGED <<authVars, ledgerVars>>

AddModuleTo(prev, courseId, module) ==
    [i \in DOMAIN prev |->
        IF prev[i].id = courseId
        THEN [prev[i] EXCEPT !.modules = Append(@, module)]
        ELSE prev[i]]

addModule(courseId) ==
    /\ Created(courses, enrollments) < MaxIds
    /\ courses' = AddModuleTo(courses, courseId,
                              [id |-> generateId("module", NumModules(courses)), lessons |-> <<>>])
    /\ UNCHANGED <<enrollments, certificates, rCourses, rEnrollments, fired, toggles>>
    /\ UNCHANGED uiVars
    /\ UNCHANGED <<authVars, ledgerVars>>

AddLessonTo(prev, courseId, moduleId, lesson) ==
    [i \in DOMAIN prev |->
        IF prev[i].id = courseId
        THEN [prev[i] EXCEPT !.modules =
                [j \in DOMAIN @ |->
                    IF @[j].id = moduleId
                    THEN [@[j] EXCEPT !.lessons = Append(@, lesson)]
                    ELSE @[j]]]
        ELSE prev[i]]

addLesson(courseId, moduleId) ==
    /\ Created(courses, enrollments) < MaxIds
    /\ courses' = AddLessonTo(courses, courseId, moduleId,
                              Lesson(generateId("lesson", NumLessons(courses)), "video", <<>>))
    /\ UNCHANGED <<enrollments, certificates, rCourses, rEnrollments, fired, toggles>>
    /\ UNCHANGED uiVars
    /\ UNCHANGED <<authVars, ledgerVars>>

(***************************************************************************)
(* enrollLearner                                                           *)
(***************************************************************************)
\* enrollments.some(...) over the enrollments the callback closed over
EnrollExists(snapshot, courseId, learnerId) ==
    \E i \in DOMAIN snapshot :
        snapshot[i].courseId = courseId /\ snapshot[i].learnerId = learnerId

\* the setEnrollments updater of lines 237-246
WithEnrollment(prev, id, courseId, learnerId) ==
    Append(prev, [id |-> id,
                  courseId |-> courseId,
                  learnerId |-> learnerId,
                  completedLessons |-> <<>>,
                  completedAt |-> Undefined])

enrollLearner(courseId, learnerId) ==
    /\ Created(courses, enrollments) < MaxIds
    /\ ~EnrollExists(rEnrollments, courseId, learnerId)
    /\ enrollments' = WithEnrollment(enrollments, generateId("enrollment", Len(enrollments)),
                                     courseId, learnerId)
    /\ fired' = (generateId("enrollment", Len(enrollments)) :> 0) @@ fired
    /\ UNCHANGED <<courses, certificates, rCourses, rEnrollments, toggles>>
    /\ UNCHANGED uiVars
    /\ UNCHANGED <<authVars, ledgerVars>>

\* the early return: `if (exists) return;`
enrollLearnerExists(courseId, learnerId) ==
    /\ EnrollExists(rEnrollments, courseId, learnerId)
    /\ UNCHANGED vars

(***************************************************************************)
(* toggleLessonCompletion                                                  *)
(***************************************************************************)
\* mutant: the lesson id is appended whether or not it is present
UpdatedLessonsAppendOnly(completedLessons, lessonId) ==
    Append(completedLessons, lessonId)

\* mutant: marks only, never un-marks
UpdatedLessonsMarkOnly(completedLessons, lessonId) ==
    IF Includes(completedLessons, lessonId)
    THEN completedLessons
    ELSE Append(completedLessons, lessonId)

\* lines 254-257
UpdatedLessons(completedLessons, lessonId) ==
    IF Includes(completedLessons, lessonId)
    THEN FilterOut(completedLessons, lessonId)
    ELSE Append(completedLessons, lessonId)

\* mutant: completion is detected one lesson early
CompletedAtOneEarly(updatedLessons, snapshot, courseId, now) ==
    IF TotalLessons(snapshot, courseId) > 0
       /\ Len(updatedLessons) + 1 = TotalLessons(snapshot, courseId)
    THEN now
    ELSE Undefined

\* mutant: completion is detected without asking for a lesson
CompletedAtNoGuard(updatedLessons, snapshot, courseId, now) ==
    IF Len(updatedLessons) = TotalLessons(snapshot, courseId)
    THEN now
    ELSE Undefined

\* lines 259-264; `snapshot` is the `courses` the callback closed over
CompletedAt(updatedLessons, snapshot, courseId, now) ==
    IF TotalLessons(snapshot, courseId) > 0
       /\ Len(updatedLessons) = TotalLessons(snapshot, courseId)
    THEN now
    ELSE Undefined

\* the updater's result for the enrollment that matches
ToggleEnrollment(enrollment, snapshot, lessonId, now) ==
    [enrollment EXCEPT
        !.completedLessons = UpdatedLessons(enrollment.completedLessons, lessonId),
        !.completedAt = CompletedAt(UpdatedLessons(enrollment.completedLessons, lessonId),
                                    snapshot, enrollment.courseId, now)]

\* mutant: the updater records nothing
CompletionCertificatesNone(prevCerts, learnerId, courseId) == prevCerts

\* mutant: appends without looking for an existing certificate
CompletionCertificatesNoCheck(prevCerts, learnerId, courseId) ==
    (learnerId :> Append(CertsOf(prevCerts, learnerId), courseId)) @@ prevCerts

\* the setCertificates updater of lines 267-274
CompletionCertificates(prevCerts, learnerId, courseId) ==
    IF Includes(CertsOf(prevCerts, learnerId), courseId)
    THEN prevCerts
    ELSE (learnerId :> Append(CertsOf(prevCerts, learnerId), courseId)) @@ prevCerts

\* mutant: the updater runs without the `if (completedAt)` around it
RECURSIVE CertificatesAfterToggleAlways(_, _, _, _)
CertificatesAfterToggleAlways(prevCerts, after, enrollmentId, n) ==
    IF n = 0 THEN prevCerts
    ELSE LET c == CertificatesAfterToggleAlways(prevCerts, after, enrollmentId, n - 1)
         IN IF after[n].id = enrollmentId
            THEN CompletionCertificates(c, after[n].learnerId, after[n].courseId)
            ELSE c

\* lines 266-275: the setCertificates calls queued while prev.map visits
\* enrollments 1..n, applied in order
RECURSIVE CertificatesAfterToggle(_, _, _, _)
CertificatesAfterToggle(prevCerts, after, enrollmentId, n) ==
    IF n = 0 THEN prevCerts
    ELSE LET c == CertificatesAfterToggle(prevCerts, after, enrollmentId, n - 1)
         IN IF after[n].id = enrollmentId /\ after[n].completedAt # Undefined
            THEN CompletionCertificates(c, after[n].learnerId, after[n].courseId)
            ELSE c

\* mutant: the early return for other enrollments comes after completedAt is computed
ToggleAllStamped(prev, snapshot, enrollmentId, lessonId, now) ==
    [i \in DOMAIN prev |->
        IF prev[i].id # enrollmentId
        THEN [prev[i] EXCEPT !.completedAt =
                 CompletedAt(prev[i].completedLessons, snapshot, prev[i].courseId, now)]
        ELSE ToggleEnrollment(prev[i], snapshot, lessonId, now)]

\* lines 250-283: the setEnrollments updater
ToggleAll(prev, snapshot, enrollmentId, lessonId, now) ==
    [i \in DOMAIN prev |->
        IF prev[i].id # enrollmentId
        THEN prev[i]
        ELSE ToggleEnrollment(prev[i], snapshot, lessonId, now)]

\* what a call does to the store
ToggleUpdate(enrollmentId, lessonId, now) ==
    LET after == ToggleAll(enrollments, rCourses, enrollmentId, lessonId, now)
    IN /\ enrollments' = after
       /\ certificates' = CertificatesAfterToggle(certificates, after, enrollmentId, Len(after))
       /\ fired' = [e \in DOMAIN fired |->
                       IF \E i \in DOMAIN after :
                             /\ after[i].id = e
                             /\ after[i].id = enrollmentId
                             /\ after[i].completedAt # Undefined
                       THEN Min(fired[e] + 1, FiredCap)
                       ELSE fired[e]]
       /\ UNCHANGED <<courses, rCourses, rEnrollments>>

\* a call, counted
CountedToggle(enrollmentId, lessonId, now) ==
    /\ toggles < MaxToggles
    /\ toggles' = toggles + 1
    /\ ToggleUpdate(enrollmentId, lessonId, now)

toggleLessonCompletion(enrollmentId, lessonId, now) ==
    /\ CountedToggle(enrollmentId, lessonId, now)
    /\ UNCHANGED uiVars
    /\ UNCHANGED <<authVars, ledgerVars>>

\* a call whose enrollmentId no enrollment carries: prev.map returns every enrollment
toggleLessonCompletionNoMatch(enrollmentId, lessonId, now) ==
    /\ ToggleUpdate(enrollmentId, lessonId, now)
    /\ UNCHANGED toggles
    /\ UNCHANGED uiVars
    /\ UNCHANGED <<authVars, ledgerVars>>

(***************************************************************************)
(* issueCertificate                                                        *)
(***************************************************************************)
\* mutant: appends without looking for an existing certificate
IssueCertificateUpdateNoCheck(prev, courseId, learnerId) ==
    (learnerId :> Append(CertsOf(prev, learnerId), courseId)) @@ prev

\* lines 287-294: the setCertificates updater
IssueCertificateUpdate(prev, courseId, learnerId) ==
    IF Includes(CertsOf(prev, learnerId), courseId)
    THEN prev
    ELSE (learnerId :> Append(CertsOf(prev, learnerId), courseId)) @@ prev

issueCertificate(courseId, learnerId) ==
    /\ IssueCertificateUpdate(certificates, courseId, learnerId) # certificates
          => toggles < MaxToggles
    /\ certificates' = IssueCertificateUpdate(certificates, courseId, learnerId)
    /\ toggles' = IF IssueCertificateUpdate(certificates, courseId, learnerId) # certificates
                  THEN toggles + 1
                  ELSE toggles
    /\ UNCHANGED <<courses, enrollments, rCourses, rEnrollments, fired>>
    /\ UNCHANGED uiVars
    /\ UNCHANGED <<authVars, ledgerVars>>

(***************************************************************************)
(* Render: the provider re-renders and its callbacks close over the        *)
(* current state.                                                          *)
(***************************************************************************)
Render ==
    /\ <<rCourses, rEnrollments>> # <<courses, EnrollKeys(enrollments)>>
    /\ rCourses' = courses
    /\ rEnrollments' = EnrollKeys(enrollments)
    /\ UNCHANGED <<courses, enrollments, certificates, fired, toggles>>
    /\ UNCHANGED uiVars
    /\ UNCHANGED <<authVars, ledgerVars>>

(***************************************************************************)
(* progressForEnrollment: Math.round((completed / total) * 100)            *)
(***************************************************************************)
\* mutant: the percentage is cut off, not rounded
progressFloor(enrollment, course) ==
    LET totalLessons == Len(FlatLessons(course.modules))
    IN IF totalLessons = 0 THEN 0
       ELSE (100 * Len(enrollment.completedLessons)) \div totalLessons

\* mutant: the share of lessons that remain
progressRemaining(enrollment, course) ==
    LET totalLessons == Len(FlatLessons(course.modules))
    IN IF totalLessons = 0 THEN 0
       ELSE (200 * (totalLessons - Len(enrollment.completedLessons)) + totalLessons)
            \div (2 * totalLessons)

progressForEnrollment(enrollment, course) ==
    LET totalLessons == Len(FlatLessons(course.modules))
    IN IF totalLessons = 0 THEN 0
       ELSE (200 * Len(enrollment.completedLessons) + totalLessons) \div (2 * totalLessons)

(***************************************************************************)
(* Specification                                                           *)
(***************************************************************************)
CourseIdInputs == CourseIds(courses) \cup {UnknownCourse}
ModuleIdInputs == ModuleIds(courses) \cup {UnknownModule}
\* lesson ids offered to a call on enrollment e: the lessons of its course, and one
\* id that is no lesson of it (the operation never looks an id up in the course)
LessonIdInputs(e) ==
    {l.id : l \in UNION {Range(FlatLessons(FindCourse(courses, enrollments[i].courseId).modules)) :
                            i \in {j \in DOMAIN enrollments :
                                      /\ enrollments[j].id = e
                                      /\ HasCourse(courses, enrollments[j].courseId)}}}
    \cup {UnknownLesson}
EnrollmentIdInputs == EnrollmentIds(enrollments) \cup {UnknownEnrollment}

Next ==
    \/ createCourse(<<>>)
    \/ \E c \in CourseIdInputs : addModule(c)
    \/ \E c \in CourseIdInputs, m \in ModuleIdInputs : addLesson(c, m)
    \/ \E c \in CourseIdInputs, l \in LearnerIds : enrollLearner(c, l)
    \/ \E c \in CourseIdInputs, l \in LearnerIds : enrollLearnerExists(c, l)
    \/ \E e \in EnrollmentIds(enrollments), now \in Times : \E l \in LessonIdInputs(e) :
          toggleLessonCompletion(e, l, now)
    \/ \E e \in EnrollmentIdInputs \ EnrollmentIds(enrollments), now \in Times :
          \E l \in LessonIdInputs(e) : toggleLessonCompletionNoMatch(e, l, now)
    \/ \E c \in CourseIds(courses), l \in LearnerIds : issueCertificate(c, l)
    \/ Render

Spec == Init /\ [][Next]_vars

(***************************************************************************)
(* A course of four lessons and a fresh enrollment                         *)
(***************************************************************************)
\* the seeded course after one addLesson
fourLessonCourses ==
    AddLessonTo(seedCourses, seedCourses[1].id, seedCourses[1].modules[1].id,
                Lesson(generateId("lesson", NumLessons(seedCourses)), "video", <<>>))

\* the seeded enrollment after its one completed lesson is toggled off: nothing
\* completed, completedAt unset, as enrollLearner creates an enrollment
freshEnrollments ==
    ToggleAll(seedEnrollments, fourLessonCourses, seedEnrollments[1].id,
              seedEnrollments[1].completedLessons[1], Undefined)

InitFour ==
    /\ courses = fourLessonCourses
    /\ rCourses = fourLessonCourses
    /\ enrollments = freshEnrollments
    /\ rEnrollments = EnrollKeys(freshEnrollments)
    /\ certificates = seedCertificates
    /\ fired = [e \in EnrollmentIds(freshEnrollments) |-> 0]
    /\ toggles = 0
    /\ quizState = <<>>
    /\ quizFeedback = <<>>
    /\ InitAuth
    /\ InitLedger
    /\ activeCourseId = freshEnrollments[1].courseId

\* toggleLessonCompletion on a lesson of the course
toggleLessonOfCourse(enrollmentId, lessonId, now) ==
    /\ ToggleUpdate(enrollmentId, lessonId, now)
    /\ UNCHANGED toggles
    /\ UNCHANGED uiVars
    /\ UNCHANGED <<authVars, ledgerVars>>

NextFour ==
    \E lesson \in Range(FlatLessons(FlatModules(courses))) : \E now \in Times :
        toggleLessonOfCourse(enrollments[1].id, lesson.id, now)

SpecFour == InitFour /\ [][NextFour]_vars

(***************************************************************************)
(* Credit Ledger: completion rewards from the sponsor pool                 *)
(***************************************************************************)
storeVars == <<courses, enrollments, certificates, rCourses, rEnrollments, fired, toggles>>

\* the idempotency key of a completion reward
RewardKey(learnerId, courseId) == <<learnerId, courseId>>

\* the completion-reward transactions of the log for a key
RewardsFor(log, key) ==
    {i \in DOMAIN log : /\ log[i].kind = "completion-reward"
                        /\ RewardKey(log[i].learnerId, log[i].courseId) = key}

\* the keys that were paid
Paid(log) == {k \in completions : RewardsFor(log, k) # {}}

\* mutant: the key is not looked up
AlreadyRewardedNever(log, key) == FALSE

\* a retry that finds the key already present
AlreadyRewarded(log, key) == RewardsFor(log, key) # {}

\* mutant: any positive balance is taken for enough
PoolCoversAnyPositive(pool) == pool > 0

\* pool balance >= configured per-course reward
PoolCovers(pool) == pool >= RewardPerCompletion

\* toggleLessonCompletion detects a completion: the CourseCompleted event
CourseCompleted(learnerId, courseId) ==
    /\ completions' = completions \cup {RewardKey(learnerId, courseId)}
    /\ UNCHANGED <<sponsorPool, learnerBalance, transactionLog, rewardQueue, donated>>
    /\ UNCHANGED <<storeVars, uiVars, authVars>>

\* the ledger handles a delivery, a redelivery or a retry of the event
rewardCompletion(learnerId, courseId) ==
    /\ RewardKey(learnerId, courseId) \in completions
    /\ IF AlreadyRewarded(transactionLog, RewardKey(learnerId, courseId))
       THEN UNCHANGED <<sponsorPool, learnerBalance, transactionLog, rewardQueue>>
       ELSE IF ~PoolCovers(sponsorPool)
       THEN /\ rewardQueue' = rewardQueue \cup {RewardKey(learnerId, courseId)}
            /\ UNCHANGED <<sponsorPool, learnerBalance, transactionLog>>
       ELSE /\ sponsorPool' = sponsorPool - RewardPerCompletion
            /\ learnerBalance' = [learnerBalance EXCEPT ![learnerId] = @ + RewardPerCompletion]
            /\ transactionLog' = Append(transactionLog,
                                        [kind |-> "completion-reward",
                                         learnerId |-> learnerId,
                                         courseId |-> courseId,
                                         amount |-> RewardPerCompletion])
            /\ rewardQueue' = rewardQueue \ {RewardKey(learnerId, courseId)}
    /\ UNCHANGED <<completions, donated>>
    /\ UNCHANGED <<storeVars, uiVars, authVars>>

\* donate(sponsorId, amount)
donate(amount) ==
    /\ donated < MaxDonations
    /\ IF amount <= 0
       THEN UNCHANGED <<sponsorPool, transactionLog, donated>>
       ELSE /\ sponsorPool' = sponsorPool + amount
            /\ transactionLog' = Append(transactionLog,
                                        [kind |-> "donation",
                                         learnerId |-> Null,
                                         courseId |-> Null,
                                         amount |-> amount])
            /\ donated' = donated + 1
    /\ UNCHANGED <<learnerBalance, rewardQueue, completions>>
    /\ UNCHANGED <<storeVars, uiVars, authVars>>

NextLedger ==
    \/ \E l \in LedgerLearners : CourseCompleted(l, seedCourses[1].id)
    \/ \E l \in LedgerLearners : rewardCompletion(l, seedCourses[1].id)
    \/ \E amount \in {0, RewardPerCompletion} : donate(amount)

SpecLedger == Init /\ [][NextLedger]_vars

(***************************************************************************)
(* AuthContext and AppContent: sign-in and the views on screen             *)
(***************************************************************************)
Roles == {"admin", "instructor", "learner"}
Emails == {"admin@pulselearn.com", "jordan@pulselearn.com", "new@pulselearn.com"}

\* users.find((u) => u.email === email && u.role === role) finds something
HasMatch(us, email, role) == \E i \in DOMAIN us : us[i].email = email /\ us[i].role = role

\* users.find(...): the first match
FindMatch(us, email, role) ==
    us[CHOOSE i \in DOMAIN us :
          /\ us[i].email = email /\ us[i].role = role
          /\ \A j \in 1..(i-1) : ~(us[j].email = email /\ us[j].role = role)]

\* users.some((u) => u.email === email)
EmailExists(us, email) == \E i \in DOMAIN us : us[i].email = email

\* a user object with a generated id
NewUser(us, email, role) == [id |-> generateId("user", Len(us)), email |-> email, role |-> role]

\* login(email, role), lines 25-41
LoginUpdate(email, role) ==
    IF HasMatch(users, email, role)
    THEN /\ authUser' = FindMatch(users, email, role)
         /\ UNCHANGED users
    ELSE /\ Len(users) < Len(initialUsers) + MaxIds
         /\ users' = Append(users, NewUser(users, email, role))
         /\ authUser' = NewUser(users, email, role)

\* LoginView in mode 'login': handleSubmit
login(email, role) ==
    /\ authUser = NoUser
    /\ LoginUpdate(email, role)
    /\ UNCHANGED showComposer
    /\ UNCHANGED <<storeVars, uiVars, ledgerVars>>

\* LoginView in mode 'register': handleSubmit
register(email, role) ==
    /\ authUser = NoUser
    /\ IF EmailExists(users, email)
       THEN LoginUpdate(email, role)
       ELSE /\ Len(users) < Len(initialUsers) + MaxIds
            /\ users' = Append(users, NewUser(users, email, role))
            /\ authUser' = NewUser(users, email, role)
    /\ UNCHANGED showComposer
    /\ UNCHANGED <<storeVars, uiVars, ledgerVars>>

\* TopBar: the sign-out button
logout ==
    /\ authUser # NoUser
    /\ authUser' = NoUser
    /\ UNCHANGED <<users, showComposer>>
    /\ UNCHANGED <<storeVars, uiVars, ledgerVars>>

\* TopBar onCreateAnnouncement / AdminDashboard onComposeAnnouncement
openComposer ==
    /\ authUser # NoUser
    /\ authUser.role = "admin"
    /\ showComposer' = TRUE
    /\ UNCHANGED <<authUser, users>>
    /\ UNCHANGED <<storeVars, uiVars, ledgerVars>>

\* AnnouncementComposer onClose (Cancel, or after Publish)
closeComposer ==
    /\ authUser # NoUser
    /\ showComposer
    /\ showComposer' = FALSE
    /\ UNCHANGED <<authUser, users>>
    /\ UNCHANGED <<storeVars, uiVars, ledgerVars>>

\* mutant: the admin dashboard is the default of every role but learner
DashboardsAdminDefault(u) ==
    (IF u.role # "learner" THEN {"AdminDashboard"} ELSE {})
    \cup (IF u.role = "instructor" THEN {"InstructorDashboard"} ELSE {})
    \cup (IF u.role = "learner" THEN {"LearnerDashboard"} ELSE {})

\* <main>: the dashboards rendered for a signed-in user
Dashboards(u) ==
    (IF u.role = "admin" THEN {"AdminDashboard"} ELSE {})
    \cup (IF u.role = "instructor" THEN {"InstructorDashboard"} ELSE {})
    \cup (IF u.role = "learner" THEN {"LearnerDashboard"} ELSE {})

\* what AppContent renders
AppContent ==
    IF authUser = NoUser
    THEN {"LoginView"}
    ELSE {"TopBar"} \cup Dashboards(authUser)
         \cup (IF showComposer THEN {"AnnouncementComposer"} ELSE {})

NextAuth ==
    \/ \E email \in Emails, role \in Roles : login(email, role)
    \/ \E email \in Emails, role \in Roles : register(email, role)
    \/ logout
    \/ openComposer
    \/ closeComposer

SpecAuth == Init /\ [][NextAuth]_vars

(***************************************************************************)
(* LearnerDashboard: the learner's session on the seeded store             *)
(***************************************************************************)
user == "u-learner"

SelectAnOption == "Select an option to continue."
GreatJob == "Great job! Lesson completed."
TryAgain == "Try again - revisit the lesson notes."

\* { ...prev, [key]: value }
SetEntry(prev, key, value) ==
    [k \in DOMAIN prev \cup {key} |-> IF k = key THEN value ELSE prev[k]]

\* quizState[lesson.id]
Selected(lessonId) ==
    IF lessonId \in DOMAIN quizState THEN quizState[lessonId] ELSE Undefined

\* learnerEnrollments.find((enrollment) => enrollment.courseId === activeCourseId) finds something
HasActiveEnrollment ==
    \E i \in DOMAIN rEnrollments :
        rEnrollments[i].learnerId = user /\ rEnrollments[i].courseId = activeCourseId

\* its position among the enrollments
ActiveIndex ==
    CHOOSE i \in DOMAIN rEnrollments :
        /\ rEnrollments[i].learnerId = user /\ rEnrollments[i].courseId = activeCourseId
        /\ \A j \in 1..(i-1) :
              ~(rEnrollments[j].learnerId = user /\ rEnrollments[j].courseId = activeCourseId)

activeEnrollment == enrollments[ActiveIndex]

\* activeCourse && activeEnrollment: the lesson list is on screen
LessonsShown == HasCourse(rCourses, activeCourseId) /\ HasActiveEnrollment

\* the lessons on screen
ShownLessons ==
    IF LessonsShown THEN Range(FlatLessons(FindCourse(rCourses, activeCourseId).modules)) ELSE {}

\* lesson.contentType === 'quiz' && lesson.quiz: the quiz block is on screen
QuizShown(lesson) == lesson.contentType = "quiz" /\ lesson.quiz # <<>>

\* an option button of a quiz
selectOption(lesson, option) ==
    /\ lesson \in ShownLessons
    /\ QuizShown(lesson)
    /\ option \in Range(lesson.quiz[1].options)
    /\ quizState' = SetEntry(quizState, lesson.id, option)
    /\ UNCHANGED <<courses, enrollments, certificates, rCourses, rEnrollments, fired, toggles,
                   quizFeedback, activeCourseId>>
    /\ UNCHANGED <<authVars, ledgerVars>>

\* mutant: every answer counts as the right one
SubmitTogglesAnyAnswer(selected, correct) == TRUE

\* selected === correct
SubmitToggles(selected, correct) == selected = correct

handleQuizSubmit(lesson, now) ==
    /\ lesson \in ShownLessons
    /\ QuizShown(lesson)
    /\ IF Selected(lesson.id) = Undefined
       THEN /\ quizFeedback' = SetEntry(quizFeedback, lesson.id, SelectAnOption)
            /\ UNCHANGED <<courses, enrollments, certificates, rCourses, rEnrollments,
                           fired, toggles>>
       ELSE IF SubmitToggles(Selected(lesson.id), lesson.quiz[1].answer)
       THEN /\ CountedToggle(activeEnrollment.id, lesson.id, now)
            /\ quizFeedback' = SetEntry(quizFeedback, lesson.id, GreatJob)
       ELSE /\ quizFeedback' = SetEntry(quizFeedback, lesson.id, TryAgain)
            /\ UNCHANGED <<courses, enrollments, certificates, rCourses, rEnrollments,
                           fired, toggles>>
    /\ UNCHANGED <<quizState, activeCourseId>>
    /\ UNCHANGED <<authVars, ledgerVars>>

\* the Mark complete / Completed button of a lesson
handleToggleLesson(lesson, now) ==
    /\ lesson \in ShownLessons
    /\ CountedToggle(activeEnrollment.id, lesson.id, now)
    /\ quizFeedback' = SetEntry(quizFeedback, lesson.id, "")
    /\ UNCHANGED <<quizState, activeCourseId>>
    /\ UNCHANGED <<authVars, ledgerVars>>

\* the View course button of one of the learner's enrollments
setActiveCourseId(courseId) ==
    /\ \E i \in DOMAIN rEnrollments :
          rEnrollments[i].learnerId = user /\ rEnrollments[i].courseId = courseId
    /\ activeCourseId' = courseId
    /\ UNCHANGED <<courses, enrollments, certificates, rCourses, rEnrollments, fired, toggles,
                   quizState, quizFeedback>>
    /\ UNCHANGED <<authVars, ledgerVars>>

NextUI ==
    \/ \E lesson \in ShownLessons :
          \E option \in (IF QuizShown(lesson) THEN Range(lesson.quiz[1].options) ELSE {}) :
             selectOption(lesson, option)
    \/ \E lesson \in ShownLessons : \E now \in Times : handleQuizSubmit(lesson, now)
    \/ \E lesson \in ShownLessons : \E now \in Times : handleToggleLesson(lesson, now)
    \/ \E courseId \in CourseIds(rCourses) : setActiveCourseId(courseId)

SpecUI == Init /\ [][NextUI]_vars

(***************************************************************************)
(* Properties                                                              *)
(***************************************************************************)
\* What a learner sees of the enrollments: per enrollment, the set of completed
\* lessons and whether the completion timestamp is set
EnrollmentView(es) ==
    [i \in DOMAIN es |-> [completed |-> Range(es[i].completedLessons),
                          isCompleted |-> es[i].completedAt # Undefined]]

CompletedSets(es) == [i \in DOMAIN es |-> Range(es[i].completedLessons)]

\* the store after one call toggleLessonCompletion(e, l) from the current state
EnrollmentsAfter(es, e, l, now) == ToggleAll(es, rCourses, e, l, now)
CertificatesAfter(certs, es, e, l, now) ==
    CertificatesAfterToggle(certs, EnrollmentsAfter(es, e, l, now), e,
                            Len(EnrollmentsAfter(es, e, l, now)))

\* the progress of the i-th enrollment against its course in the store
ProgressOf(es, cs, i) == progressForEnrollment(es[i], FindCourse(cs, es[i].courseId))

C4_ProgressWithin0And100 ==
    \A i \in DOMAIN enrollments :
        HasCourse(courses, enrollments[i].courseId)
           => /\ ProgressOf(enrollments, courses, i) >= 0
              /\ ProgressOf(enrollments, courses, i) <= 100

\* C5 (as claimed): in the state a toggleLessonCompletion call produces, completedAt is
\* set exactly if the number of completed lessons equals the number of lessons of the
\* course as it then is in the store.
C5_CompletedAtIffAllLessonsDone ==
    [][\A i \in DOMAIN enrollments :
          (/\ enrollments'[i].completedLessons # enrollments[i].completedLessons
           /\ HasCourse(courses', enrollments'[i].courseId))
             => (enrollments'[i].completedAt # Undefined
                    <=> Len(enrollments'[i].completedLessons)
                           = TotalLessons(courses', enrollments'[i].courseId))]_vars

C7_AtMostOneCertificatePerPair ==
    \A l \in DOMAIN certificates :
        \A c \in Range(certificates[l]) : Count(certificates[l], c) = 1

\* C7 witness: the learner holds a certificate from a detected completion and a second
\* one for another course.
C7_Witness ==
    /\ fired["enroll-1"] >= 1
    /\ Includes(CertsOf(certificates, "u-learner"), "c-design-thinking")
    /\ Len(CertsOf(certificates, "u-learner")) >= 2

\* C8 (as claimed): a certificate for (learner, course) exists only if that learner has
\* an enrollment in that course for which completion was detected.
C8_CertificateOnlyOnCompletion ==
    \A l \in DOMAIN certificates :
        \A c \in Range(certificates[l]) :
            \E i \in DOMAIN enrollments :
                /\ enrollments[i].learnerId = l
                /\ enrollments[i].courseId = c
                /\ fired[enrollments[i].id] >= 1

\* C8 (amended): toggleLessonCompletion creates a certificate for (learner, course) only
\* in a call that leaves an enrollment of that learner in that course with completedAt
\* set and as many completed lessons as the course had lessons when the callback was
\* rendered; issueCertificate creates one for any pair without looking at enrollments.
C8_ToggleCertifiesOnlyOnCompletion ==
    [][\A l \in DOMAIN certificates' :
          \A c \in Range(certificates'[l]) \ Range(CertsOf(certificates, l)) :
              \/ enrollments' = enrollments
              \/ \E i \in DOMAIN enrollments :
                    /\ enrollments'[i] # enrollments[i]
                    /\ enrollments'[i].learnerId = l
                    /\ enrollments'[i].courseId = c
                    /\ enrollments'[i].completedAt # Undefined
                    /\ Len(enrollments'[i].completedLessons) = TotalLessons(rCourses, c)]_vars

\* C8 witness: the second call of a behaviour completed the course and the learner
\* holds its certificate.
C8_Witness ==
    /\ toggles = 2
    /\ enrollments[1].completedAt # Undefined
    /\ CertsOf(certificates, "u-learner") = <<"c-design-thinking">>

\* C9 (as claimed): no two enrollments have the same learner and course.
C9_OneEnrollmentPerPair ==
    \A i, j \in DOMAIN enrollments :
        (/\ enrollments[i].learnerId = enrollments[j].learnerId
         /\ enrollments[i].courseId = enrollments[j].courseId) => i = j

\* C10 (as claimed): every id in an enrollment's completed lessons is the id of a
\* lesson of that enrollment's course.
C10_CompletedAreLessonsOfCourse ==
    \A i \in DOMAIN enrollments :
        \A x \in Range(enrollments[i].completedLessons) :
            /\ HasCourse(courses, enrollments[i].courseId)
            /\ \E l \in Range(FlatLessons(FindCourse(courses, enrollments[i].courseId).modules)) :
                  l.id = x

\* C11 (as claimed): progress is floor(100 * completed / total), and 0 for a course
\* without lessons.
C11_ProgressIsFloor ==
    \A i \in DOMAIN enrollments :
        HasCourse(courses, enrollments[i].courseId)
           => ProgressOf(enrollments, courses, i)
                 = (IF TotalLessons(courses, enrollments[i].courseId) = 0 THEN 0
                    ELSE (100 * Len(enrollments[i].completedLessons))
                            \div TotalLessons(courses, enrollments[i].courseId))

\* C11 (amended): progress is 100 * completed / total rounded to the nearest integer,
\* a half rounding up: the integer p with p - 1/2 <= 100 * completed / total < p + 1/2;
\* it is 0 for a course without lessons.
C11_ProgressIsRounded ==
    \A i \in DOMAIN enrollments :
        HasCourse(courses, enrollments[i].courseId)
           => LET total == TotalLessons(courses, enrollments[i].courseId)
                  done == Len(enrollments[i].completedLessons)
                  p == ProgressOf(enrollments, courses, i)
              IN IF total = 0 THEN p = 0
                 ELSE /\ (2 * p - 1) * total <= 200 * done
                      /\ 200 * done < (2 * p + 1) * total

\* C11 witness: two of three lessons are completed, where rounding (67) and cutting
\* off (66) differ.
C11_Witness ==
    \E i \in DOMAIN enrollments :
        /\ Len(enrollments[i].completedLessons) = 2
        /\ TotalLessons(courses, enrollments[i].courseId) = 3
        /\ ProgressOf(enrollments, courses, i) = 67

\* lessons of the catalogue presented as quizzes
QuizLessons == {l \in Range(FlatLessons(FlatModules(courses))) : l.contentType = "quiz"}

\* C12: a quiz lesson enters an enrollment's completedLessons only in a step that
\* submits the correct answer of its quiz: the selected option is the answer and
\* the step leaves the success message.
C12_QuizCompletedOnlyByCorrectSubmission ==
    [][\A i \in DOMAIN enrollments : \A l \in QuizLessons :
          (/\ ~Includes(enrollments[i].completedLessons, l.id)
           /\ Includes(enrollments'[i].completedLessons, l.id))
          => /\ l.quiz # <<>>
             /\ Selected(l.id) = l.quiz[1].answer
             /\ l.id \in DOMAIN quizFeedback'
             /\ quizFeedback'[l.id] = GreatJob]_vars

\* C13: a step that answers a quiz submission while the selected option is not
\* the answer (or nothing is selected) leaves enrollments and certificates as they
\* were and leaves the retry message: "Select an option to continue." without a
\* selection, "Try again" otherwise.
C13_FailedSubmissionChangesNothing ==
    [][\A l \in QuizLessons :
          (/\ l.quiz # <<>>
           /\ Selected(l.id) # l.quiz[1].answer
           /\ l.id \in DOMAIN quizFeedback'
           /\ quizFeedback'[l.id] # ""
           /\ (l.id \notin DOMAIN quizFeedback \/ quizFeedback[l.id] # quizFeedback'[l.id]))
          => /\ enrollments' = enrollments
             /\ certificates' = certificates
             /\ quizFeedback'[l.id] =
                   IF Selected(l.id) = Undefined THEN SelectAnOption ELSE TryAgain]_vars

\* a wrong answer was submitted and the store is as it was seeded
C13_Witness ==
    /\ "l-3" \in DOMAIN quizFeedback
    /\ quizFeedback["l-3"] = TryAgain
    /\ Selected("l-3") = "Survey link"
    /\ enrollments = seedEnrollments
    /\ certificates = seedCertificates

\* C14: in a course of four lessons, an enrollment with three lessons completed
\* has progress 75 and no completedAt, and no certificate as long as completion
\* was never detected; with all four completed it has progress 100, completedAt
\* set and exactly one certificate for the pair.
C14_ThreeOfFourThenAll ==
    \A i \in DOMAIN enrollments :
        LET e == enrollments[i]
            done == Len(e.completedLessons)
            certs == Count(CertsOf(certificates, e.learnerId), e.courseId)
        IN /\ TotalLessons(courses, e.courseId) = 4
           /\ done = 3 => /\ ProgressOf(enrollments, courses, i) = 75
                          /\ e.completedAt = Undefined
                          /\ fired[e.id] = 0 => certs = 0
           /\ done = 4 => /\ ProgressOf(enrollments, courses, i) = 100
                              /\ e.completedAt \in Times
                              /\ certs = 1

\* the fourth lesson was marked after the other three, for the first time
C14_Witness ==
    /\ TotalLessons(courses, enrollments[1].courseId) = 4
    /\ Len(enrollments[1].completedLessons) = 4
    /\ fired[enrollments[1].id] = 1
    /\ enrollments[1].completedAt \in Times
    /\ CertsOf(certificates, enrollments[1].learnerId) = <<enrollments[1].courseId>>

\* C15: a course that has an enrollment keeps its modules and lessons: no step
\* changes the modules of a course some enrollment refers to.
C15_EnrolledCourseStructureFixed ==
    [][\A i \in DOMAIN courses :
          (\E k \in DOMAIN enrollments : enrollments[k].courseId = courses[i].id)
          => \E j \in DOMAIN courses' :
                /\ courses'[j].id = courses[i].id
                /\ courses'[j].modules = courses[i].modules]_vars

\* C16: every enrollment's courseId is the id of a course of the catalogue.
C16_EnrollmentsReferToCourses ==
    \A i \in DOMAIN enrollments : HasCourse(courses, enrollments[i].courseId)

\* C17: the certificate handler is idempotent: applied when the learner already
\* holds the course's certificate it returns the certificates it was given, and
\* applied twice it gives what one application gives; the same holds for the
\* updater the completion branch of toggleLessonCompletion runs.
C17_IssueCertificateIdempotent ==
    \A c \in CourseIdInputs : \A l \in LearnerIds :
        LET once == IssueCertificateUpdate(certificates, c, l)
            detected == CompletionCertificates(certificates, l, c)
        IN /\ Includes(CertsOf(certificates, l), c) => once = certificates
           /\ IssueCertificateUpdate(once, c, l) = once
           /\ Count(CertsOf(once, l), c) = 1
           /\ CompletionCertificates(detected, l, c) = detected

\* issueCertificate issued a certificate and no completion was ever detected
C17_Witness ==
    /\ \A e \in DOMAIN fired : fired[e] = 0
    /\ CertsOf(certificates, "u-learner") = <<"c-design-thinking">>

\* C18: no lesson id occurs more than once in an enrollment's completedLessons.
C18_CompletedLessonsUnique ==
    \A i \in DOMAIN enrollments :
        \A l \in Range(enrollments[i].completedLessons) :
            Count(enrollments[i].completedLessons, l) = 1

\* a lesson was completed, taken back and completed again after another one
C18_Witness ==
    /\ toggles = 3
    /\ enrollments[1].completedLessons = <<"l-2", "l-1">>

C20_EveryLessonHasQuiz ==
    \A l \in Range(FlatLessons(FlatModules(courses))) : Len(l.quiz) >= 1

\* C21: a call that is rejected or does not apply changes nothing: no step adds an
\* enrollment for a (course, learner) pair that is already enrolled, and from every
\* state a toggleLessonCompletion naming no enrollment, an addModule naming no
\* course and an addLesson naming no course or no module return the store they
\* were given.
C21_RejectedCallsChangeNothing ==
    [][/\ \A i \in DOMAIN enrollments' \ DOMAIN enrollments :
             ~EnrollExists(enrollments, enrollments'[i].courseId, enrollments'[i].learnerId)
       /\ \A l \in LessonIdInputs(UnknownEnrollment), now \in Times :
             /\ ToggleAll(enrollments, rCourses, UnknownEnrollment, l, now) = enrollments
             /\ CertificatesAfterToggle(certificates, enrollments, UnknownEnrollment,
                                        Len(enrollments)) = certificates
       /\ AddModuleTo(courses, UnknownCourse, [id |-> UnknownModule, lessons |-> <<>>]) = courses
       /\ \A c \in CourseIdInputs, m \in ModuleIdInputs :
             (c = UnknownCourse \/ m = UnknownModule)
             => AddLessonTo(courses, c, m, Lesson(UnknownLesson, "video", <<>>)) = courses]_vars

C23_PoolEndsAtForty ==
    /\ sponsorPool >= 0
    /\ (/\ Cardinality(completions) = 4
        /\ Cardinality(rewardQueue) = 1
        /\ donated = 0) => sponsorPool = 40

\* C23 (amended): the pool is never negative; without a donation at most three of
\* the four rewards are paid, and when the fourth is queued the pool stands at 10,
\* less than one reward.
C23_PoolEndsAtTen ==
    /\ sponsorPool >= 0
    /\ donated = 0 => Cardinality(Paid(transactionLog)) <= 3
    /\ (rewardQueue # {} /\ donated = 0) => sponsorPool < RewardPerCompletion
    /\ (/\ Cardinality(completions) = 4
        /\ Cardinality(rewardQueue) = 1
        /\ donated = 0) => sponsorPool = 10

\* four completions, three rewards paid, the fourth queued, nothing donated
C23_Witness ==
    /\ Cardinality(completions) = 4
    /\ Cardinality(Paid(transactionLog)) = 3
    /\ Cardinality(rewardQueue) = 1
    /\ donated = 0

\* the dashboard of a role
DashboardOf(role) ==
    CASE role = "admin" -> "AdminDashboard"
      [] role = "instructor" -> "InstructorDashboard"
      [] role = "learner" -> "LearnerDashboard"

AllDashboards == {"AdminDashboard", "InstructorDashboard", "LearnerDashboard"}

\* C24: while nobody is signed in only the login view is shown; while a user is
\* signed in the login view is not shown and exactly one dashboard is, the one of
\* the user's role.
C24_OneDashboardForTheRole ==
    /\ authUser = NoUser => AppContent = {"LoginView"}
    /\ authUser # NoUser =>
          /\ authUser.role \in Roles
          /\ "LoginView" \notin AppContent
          /\ AppContent \cap AllDashboards = {DashboardOf(authUser.role)}

\* a user generated by a sign-in with an unknown email is shown the instructor
\* dashboard
C24_Witness ==
    /\ authUser # NoUser
    /\ authUser.id \notin {initialUsers[i].id : i \in DOMAIN initialUsers}
    /\ authUser.role = "instructor"
    /\ "InstructorDashboard" \in AppContent

\* C29: the announcement composer is on screen only while the signed-in user is
\* an admin.
C29_ComposerOnlyForAdmin ==
    "AnnouncementComposer" \in AppContent => authUser.role = "admin"

\* C30: no two entries of the users list share an email.
C30_EmailsUnique ==
    \A i, j \in DOMAIN users : users[i].email = users[j].email => i = j

\* C25: an enrollment whose completedAt is set has as many completed lessons as
\* its course has lessons now, and so shows progress 100.
C25_CompletedShowsAllLessons ==
    \A i \in DOMAIN enrollments :
        enrollments[i].completedAt # Undefined =>
            /\ Len(enrollments[i].completedLessons)
                  = TotalLessons(courses, enrollments[i].courseId)
            /\ ProgressOf(enrollments, courses, i) = 100

\* C27: every enrollment whose completedAt is set has a certificate recorded for
\* its learner and course.
C27_CompletedHasCertificate ==
    \A i \in DOMAIN enrollments :
        enrollments[i].completedAt # Undefined =>
            Includes(CertsOf(certificates, enrollments[i].learnerId),
                     enrollments[i].courseId)

\* a completed enrollment whose certificate is recorded
C27_Witness ==
    \E i \in DOMAIN enrollments :
        /\ enrollments[i].completedAt # Undefined
        /\ Includes(CertsOf(certificates, enrollments[i].learnerId),
                    enrollments[i].courseId)

\* C26: after a step that submits the correct answer of a quiz (the selected
\* option is the answer and the step leaves the success message), the quiz lesson
\* is in the completed lessons of the learner's enrollment in the viewed course.
C26_CorrectSubmissionCompletesLesson ==
    [][\A l \in QuizLessons :
          (/\ l.quiz # <<>>
           /\ Selected(l.id) = l.quiz[1].answer
           /\ toggles' # toggles
           /\ l.id \in DOMAIN quizFeedback'
           /\ quizFeedback'[l.id] = GreatJob)
          => \A i \in DOMAIN enrollments' :
                (enrollments'[i].learnerId = user /\ enrollments'[i].courseId = activeCourseId)
                => Includes(enrollments'[i].completedLessons, l.id)]_vars

(***************************************************************************)
(* The percentages the dashboards compute themselves                       *)
(***************************************************************************)
\* a JavaScript number: finite, NaN or Infinity
Num(n) == [kind |-> "finite", value |-> n]
NaN == [kind |-> "NaN", value |-> 0]
Infinity == [kind |-> "Infinity", value |-> 0]

\* Math.round((done / total) * 100) with no test of total: 0 / 0 is NaN and
\* n / 0 is Infinity, and Math.round returns both unchanged
RoundedShare(done, total) ==
    IF total = 0
    THEN IF done = 0 THEN NaN ELSE Infinity
    ELSE Num((200 * done + total) \div (2 * total))

\* LearnerDashboard, 'My courses': courseProgress
courseProgress(enrollment, course) ==
    LET totalLessons == Len(FlatLessons(course.modules))
    IN IF totalLessons # 0
       THEN RoundedShare(Len(enrollment.completedLessons), totalLessons)
       ELSE Num(0)

\* InstructorDashboard, 'Active learners': progress
instructorProgress(enrollment, selectedCourse) ==
    RoundedShare(Len(enrollment.completedLessons), Len(FlatLessons(selectedCourse.modules)))

\* AdminDashboard, the enrollments table: progress
adminProgress(enrollment, cs) ==
    IF HasCourse(cs, enrollment.courseId)
    THEN RoundedShare(Len(enrollment.completedLessons),
                      Len(FlatLessons(FindCourse(cs, enrollment.courseId).modules)))
    ELSE Num(0)

\* C28: for every enrollment whose course exists, progressForEnrollment, the
\* learner dashboard, the instructor dashboard and the admin dashboard compute
\* the same percentage.
C28_ProgressComputationsAgree ==
    \A i \in DOMAIN enrollments :
        HasCourse(courses, enrollments[i].courseId) =>
            LET course == FindCourse(courses, enrollments[i].courseId)
                p == Num(progressForEnrollment(enrollments[i], course))
            IN /\ courseProgress(enrollments[i], course) = p
               /\ instructorProgress(enrollments[i], course) = p
               /\ adminProgress(enrollments[i], courses) = p

====
